---- MODULE Spec2Model ----
(***************************************************************************)
(* Model of src/app/app.py: a Flask service that classifies a food image   *)
(* with a CNN, looks the class up in a nutrition dataset and recommends    *)
(* similar foods with a k-nearest-neighbour index.                         *)
(*                                                                         *)
(* Numbers are exact: feature values are naturals, Euclidean distances are *)
(* taken over pools whose pairwise distances are integers, and a           *)
(* similarity score 1 / (1 + d) is the rational [num, den].                *)
(* Python indices are 0-based; At(s, i) reads s[i] of a Python list.       *)
(***************************************************************************)
EXTENDS Integers, Sequences, FiniteSets, TLC

VARIABLES
    phase,      \* position of the __main__ block: boot, cnn_loaded, loaded, serving, dead
    cnn_model,  \* global cnn_model: None or the loaded classifier
    knn_model,  \* global knn_model: None or the fitted NearestNeighbors
    dataset,    \* global dataset: None or the list read from dataset.json
    fs,         \* the temp/ directory: file name -> content, or NoFile
    req,        \* per request thread: position and locals of its /predict request
    resp,       \* response of the last /predict request that returned
    lastResp,   \* response of the last /recommend, /recommend-by-name or /calculate
    recLog      \* logged query -> the result /recommend first returned for it

vars == <<phase, cnn_model, knn_model, dataset, fs, req, resp, lastResp, recLog>>

\* Python's None for a string-valued slot
None == "None"
\* an optional value: <<>> is None, <<x>> holds x
Nothing == <<>>
Some(x) == <<x>>
Val(o) == o[1]
\* a path of temp/ that does not exist
NoFile == "NoFile"
\* a request body without the field a handler reads
Missing == [has |-> FALSE, v |-> Nothing]
\* a request body with the field(s) a handler reads
Body(v) == [has |-> TRUE, v |-> Some(v)]

----------------------------------------------------------------------------
(* Bounds of the model *)

\* longest catalog the pure-function specification draws
MaxN == 6
\* number of /predict requests that can be in flight together
MaxReqs == 2

(* Program constants *)

\* n_neighbors of the NearestNeighbors index
K == 5

----------------------------------------------------------------------------
(* Python helpers *)

\* s[i] of a Python list, i >= 0
At(s, i) == s[i + 1]

\* i is a valid non-negative index of list s (argmax never yields a negative one)
InRange(s, i) == i >= 0 /\ i < Len(s)

UpperChars == <<"E", "S", "T", "H", "A", "P", "W">>
LowerChars == <<"e", "s", "t", "h", "a", "p", "w">>

\* str.lower() on one character
LowerChar(c) ==
    IF \E i \in DOMAIN UpperChars : UpperChars[i] = c
    THEN LowerChars[CHOOSE i \in DOMAIN UpperChars : UpperChars[i] = c]
    ELSE c

\* str.lower(): names are sequences of characters
Lower(s) == [i \in DOMAIN s |-> LowerChar(s[i])]

\* sqrt of a perfect square
Sqrt(n) == CHOOSE r \in 0..n : r * r = n

----------------------------------------------------------------------------
(* Data the environment can supply *)

Food(n, kal, kar, pro, lem) ==
    [nama |-> n, kalori |-> kal, karbohidrat |-> kar, protein |-> pro, lemak |-> lem]

\* two names that differ only in case, two records that share a feature vector
FoodEs   == Food(<<"E", "s">>, 90, 10, 5, 2)
FoodEsLc == Food(<<"e", "s">>, 120, 13, 5, 2)
FoodSate == Food(<<"S", "a", "t", "e">>, 200, 10, 5, 2)

\* records a dataset.json can hold
FoodPool == {FoodEs, FoodEsLc, FoodSate}

\* feature vectors a /recommend caller can send
QueryPool == {<<10, 5, 2>>, <<13, 9, 2>>}

\* names a /recommend-by-name caller can send
NamePool == {<<"E", "S">>, <<"e", "s">>, <<"T", "e", "h">>}

----------------------------------------------------------------------------
(* create_knn_model and kneighbors *)

\* df[['Karbohidrat (g)', 'Protein (g)', 'Lemak (g)']].values of one record
Features(food) == <<food.karbohidrat, food.protein, food.lemak>>

\* orders in which the index may return equidistant neighbours; fixed once fitted
TieOrders == {"asc", "desc"}

\* NearestNeighbors(n_neighbors=5, metric='euclidean').fit(features):
\* fit does not compare n_neighbors with the number of samples
create_knn_model(df, tie) ==
    [fitX |-> [i \in DOMAIN df |-> Features(df[i])], n_neighbors |-> K, tie |-> tie]

\* metric='euclidean'
Euclid(a, b) ==
    Sqrt((a[1] - b[1]) * (a[1] - b[1]) + (a[2] - b[2]) * (a[2] - b[2])
         + (a[3] - b[3]) * (a[3] - b[3]))

\* a neighbour order that puts the farthest sample first
BeforeFarthest(dist, tie, i, j) ==
    \/ At(dist, i) > At(dist, j)
    \/ At(dist, i) = At(dist, j) /\ IF tie = "asc" THEN i < j ELSE i > j

\* sample i (0-based) comes before sample j in the neighbour order, dist being the
\* distances of the samples to the query
Before(dist, tie, i, j) ==
    \/ At(dist, i) < At(dist, j)
    \/ At(dist, i) = At(dist, j) /\ IF tie = "asc" THEN i < j ELSE i > j

\* distances of every fitted sample to the query, in sample order
Distances(knn, q) == [p \in DOMAIN knn.fitX |-> Euclid(q, knn.fitX[p])]

\* for every sample, the number of samples that come before it in the neighbour order
Ranks(dist, tie) ==
    [p \in DOMAIN dist |->
        Cardinality({j \in 0..(Len(dist) - 1) : Before(dist, tie, j, p - 1)})]

\* the indices (0-based) of the k first samples of the neighbour order
Nearest(rank, k) ==
    [p \in 1..k |-> CHOOSE i \in 0..(Len(rank) - 1) : At(rank, i) = p - 1]

\* the pair (distances, indices) kneighbors returns for the chosen neighbours
Neighbors(dist, inds) ==
    [ok |-> TRUE, error |-> None,
     distances |-> [p \in DOMAIN inds |-> At(dist, inds[p])],
     indices   |-> inds]

\* the n_neighbors nearest samples, nearest first
SelectNeighbors(dist, tie, k) == Neighbors(dist, Nearest(Ranks(dist, tie), k))

\* knn_model.kneighbors([q]): ValueError when n_neighbors > n_samples_fit,
\* otherwise the n_neighbors nearest samples, nearest first
KNeighbors(knn, q) ==
    IF knn.n_neighbors > Len(knn.fitX)
    THEN [ok |-> FALSE, error |-> "ValueError", distances |-> <<>>, indices |-> <<>>]
    ELSE SelectNeighbors(Distances(knn, q), knn.tie, knn.n_neighbors)

\* float(1 / (1 + d))
Score(d) == [num |-> 1, den |-> 1 + d]

\* a score computed from another neighbour's distance
SimilarityScoreShifted(distances, n) == Score(At(distances, 0))

\* 1 / (1 + distances[0][len(recommendations)]), n = len(recommendations)
SimilarityScore(distances, n) == Score(At(distances, n))

\* the dict appended for neighbour idx when n recommendations are already in the list
RecItem(ds, distances, idx, n) ==
    LET food == At(ds, idx)
    IN  [nama |-> food.nama,
         nutrition |-> [kalori |-> food.kalori, karbohidrat |-> food.karbohidrat,
                        protein |-> food.protein, lemak |-> food.lemak],
         similarity_score |-> SimilarityScore(distances, n)]

\* the loop over indices[0] of get_food_recommendations, or the exception re-raised
Recommendations(ds, nb) ==
    IF ~nb.ok
    THEN [ok |-> FALSE, error |-> nb.error, recs |-> <<>>]
    ELSE [ok |-> TRUE, error |-> None,
          recs |-> [p \in DOMAIN nb.indices |->
                       RecItem(ds, nb.distances, nb.indices[p], p - 1)]]

\* get_food_recommendations(food_features): re-raises whatever kneighbors raises
get_food_recommendations(ds, knn, food_features) ==
    Recommendations(ds, KNeighbors(knn, food_features))

----------------------------------------------------------------------------
(* Responses *)

NoResp == [route |-> None, input |-> Missing, status |-> 0, error |-> None,
           body |-> Nothing, recRan |-> FALSE]

\* jsonify(...), status; recRan: the handler called get_food_recommendations
Response(route, input, status, error, body, recRan) ==
    [route |-> route, input |-> input, status |-> status, error |-> error,
     body |-> body, recRan |-> recRan]

\* nothing logged yet for a query
NotLogged == [ok |-> FALSE, error |-> "NotLogged", recs |-> <<>>]

\* the queries whose first /recommend result is logged
LogQueries == {<<13, 5, 2>>}

----------------------------------------------------------------------------
(* /recommend *)

\* the recommend handler; data is the JSON body: a feature vector, or Missing when a
\* required field is absent
RecommendReq(data) ==
    /\ phase = "serving"
    /\ IF ~data.has
       THEN /\ lastResp' = Response("recommend", data, 400, "Missing required fields",
                                    Nothing, FALSE)
            /\ recLog' = recLog
       ELSE LET food_features == Val(data.v)
                r == get_food_recommendations(Val(dataset), Val(knn_model), food_features)
            IN  /\ lastResp' = IF r.ok
                               THEN Response("recommend", data, 200, None, Some(r.recs), TRUE)
                               ELSE Response("recommend", data, 500, r.error, Nothing, TRUE)
                /\ recLog' = IF food_features \in LogQueries
                                /\ recLog[food_features] = NotLogged
                             THEN [recLog EXCEPT ![food_features] = r]
                             ELSE recLog
    /\ UNCHANGED <<phase, cnn_model, knn_model, dataset, fs, req, resp>>

----------------------------------------------------------------------------
(* /recommend-by-name *)

\* a loop without the break: index of the last food whose lowered name matches
FindByNameLast(ds, food_name) ==
    LET hits == {i \in 0..(Len(ds) - 1) : Lower(At(ds, i).nama) = food_name}
    IN  IF hits = {} THEN -1 ELSE CHOOSE i \in hits : \A j \in hits : j <= i

\* the loop with break: index of the first food whose lowered name equals food_name,
\* else -1 (food_data stays None)
FindByName(ds, food_name) ==
    LET hits == {i \in 0..(Len(ds) - 1) : Lower(At(ds, i).nama) = food_name}
    IN  IF hits = {} THEN -1 ELSE CHOOSE i \in hits : \A j \in hits : i <= j

\* a handler that moves the food it found to the front of the dataset
RecommendByNameReqMoveToFront(data) ==
    /\ phase = "serving"
    /\ data.has
    /\ LET ds == Val(dataset)
           i == FindByName(ds, Lower(Val(data.v)))
       IN  /\ i >= 0
           /\ dataset' = Some(<<At(ds, i)>>
                               \o [p \in 1..(Len(ds) - 1) |->
                                      IF p <= i THEN ds[p] ELSE ds[p + 1]])
           /\ lastResp' = Response("recommend-by-name", data, 200, None, Nothing, TRUE)
    /\ UNCHANGED <<phase, cnn_model, knn_model, fs, req, resp, recLog>>

\* the recommend_by_name handler; data is the JSON body: a food_name, or Missing
RecommendByNameReq(data) ==
    /\ phase = "serving"
    /\ IF ~data.has
       THEN lastResp' = Response("recommend-by-name", data, 400,
                                 "Missing food_name field", Nothing, FALSE)
       ELSE LET i == FindByName(Val(dataset), Lower(Val(data.v)))
            IN  IF i < 0
                THEN lastResp' = Response("recommend-by-name", data, 404,
                                          "Food not found in database", Nothing, FALSE)
                ELSE LET food_data == At(Val(dataset), i)
                         r == get_food_recommendations(Val(dataset), Val(knn_model),
                                                       Features(food_data))
                         input_food ==
                             [nama |-> food_data.nama,
                              nutrition |-> [kalori |-> food_data.kalori,
                                             karbohidrat |-> food_data.karbohidrat,
                                             protein |-> food_data.protein,
                                             lemak |-> food_data.lemak]]
                     IN  lastResp' =
                             IF r.ok
                             THEN Response("recommend-by-name", data, 200, None,
                                           Some([input_food |-> input_food,
                                                 recommendations |-> r.recs]), TRUE)
                             ELSE Response("recommend-by-name", data, 500, r.error,
                                           Nothing, TRUE)
    /\ UNCHANGED <<phase, cnn_model, knn_model, dataset, fs, req, resp, recLog>>

----------------------------------------------------------------------------
(* /calculate *)

Rat(n, d) == [num |-> n, den |-> d]

\* bodies a /calculate caller can send
CalcPool == {[weight |-> 60, height |-> 170, age |-> 30,
              gender |-> <<"P", "r", "i", "a">>,
              activity_level |-> <<"S", "e", "d", "a", "n", "g">>]}

\* activity_multipliers: 1.375, 1.55, 1.725 as fractions; 0 stands for an absent key
ActivityMultiplier(level) ==
    CASE level = <<"r", "i", "n", "g", "a", "n">> -> Rat(11, 8)
      [] level = <<"s", "e", "d", "a", "n", "g">> -> Rat(31, 20)
      [] level = <<"b", "e", "r", "a", "t">> -> Rat(69, 40)
      [] OTHER -> Rat(0, 1)

\* hitung_bmr_tdee: bmr and tdee as exact rationals (6.25 = 25/4), or ValueError
hitung_bmr_tdee(berat_badan, tinggi_badan, umur, jenis_kelamin, tingkat_aktivitas) ==
    LET bmr4 == IF Lower(jenis_kelamin) = <<"p", "r", "i", "a">>
                THEN 40 * berat_badan + 25 * tinggi_badan - 20 * umur + 20
                ELSE 40 * berat_badan + 25 * tinggi_badan - 20 * umur - 644
        mult == ActivityMultiplier(Lower(tingkat_aktivitas))
    IN  IF mult.num = 0
        THEN [ok |-> FALSE, error |-> "ValueError", bmr |-> Rat(0, 1), tdee |-> Rat(0, 1)]
        ELSE [ok |-> TRUE, error |-> None, bmr |-> Rat(bmr4, 4),
              tdee |-> Rat(bmr4 * mult.num, 4 * mult.den)]

\* hitung_kebutuhan_makronutrien: 55% / 20% / 25% of tdee at 4, 4 and 9 kcal per gram
hitung_kebutuhan_makronutrien(tdee) ==
    [karbohidrat |-> Rat(tdee.num * 11, tdee.den * 80),
     protein     |-> Rat(tdee.num, tdee.den * 20),
     lemak       |-> Rat(tdee.num, tdee.den * 36)]

\* the calculate handler
CalculateReq(data) ==
    /\ phase = "serving"
    /\ IF ~data.has
       THEN lastResp' = Response("calculate", data, 400, "Missing required fields",
                                 Nothing, FALSE)
       ELSE LET d == Val(data.v)
                c == hitung_bmr_tdee(d.weight, d.height, d.age, d.gender,
                                     d.activity_level)
            IN  lastResp' =
                    IF c.ok
                    THEN Response("calculate", data, 200, None,
                                  Some([bmr |-> c.bmr, tdee |-> c.tdee,
                                        kebutuhan_harian |->
                                            hitung_kebutuhan_makronutrien(c.tdee)]), FALSE)
                    ELSE Response("calculate", data, 500, c.error, Nothing, FALSE)
    /\ UNCHANGED <<phase, cnn_model, knn_model, dataset, fs, req, resp, recLog>>

----------------------------------------------------------------------------
(* Startup: the __main__ block and load_models *)

\* states of the file v1.h5
ModelFiles == {"absent", "v1"}

\* images a /predict caller can upload; junk is not an image
Images == {"imgA", "imgB", "junk"}

\* cnn_model.predict, argmax and max of the loaded 8-class model, confidence in percent
CnnOutput(model, img) ==
    IF img = "imgA" THEN [cls |-> 1, confidence |-> 93] ELSE [cls |-> 7, confidence |-> 61]

Small3 == <<FoodEs, FoodEsLc, FoodSate>>
Cat5 == <<FoodEs, FoodEsLc, FoodSate, FoodEsLc, FoodEs>>

JsonFile(rows) == [ok |-> TRUE, rows |-> rows]
Malformed == [ok |-> FALSE, rows |-> <<>>]

\* contents of dataset.json the server specification starts from
DatasetFiles == {Malformed, JsonFile(<<>>), JsonFile(Small3), JsonFile(Cat5)}

\* every catalog of 1..MaxN records of the pool
Catalogs == UNION {[1..n -> FoodPool] : n \in 1..MaxN}

\* contents of dataset.json the recommendation specification starts from
AllDatasetFiles == {Malformed, JsonFile(<<>>)} \cup {JsonFile(c) : c \in Catalogs}

\* a load that prints the error and carries on without the model
LoadCnnModelSwallow(f) ==
    /\ phase = "boot"
    /\ phase' = "cnn_loaded"
    /\ cnn_model' = IF f = "absent" THEN cnn_model ELSE Some(f)
    /\ UNCHANGED <<knn_model, dataset, fs, req, resp, lastResp, recLog>>

\* load_models, first try block: load_model raises when v1.h5 cannot be loaded; the
\* exception is re-raised, load_models never returns and app.run is never reached
LoadCnnModel(f) ==
    /\ phase = "boot"
    /\ IF f = "absent"
       THEN phase' = "dead" /\ cnn_model' = cnn_model
       ELSE phase' = "cnn_loaded" /\ cnn_model' = Some(f)
    /\ UNCHANGED <<knn_model, dataset, fs, req, resp, lastResp, recLog>>

\* load_models, second try block: json.load, pd.DataFrame, create_knn_model.
\* The global dataset is assigned before the index is built; an empty list gives a
\* DataFrame without columns, and selecting the feature columns raises KeyError.
LoadDataset(file, tie) ==
    /\ phase = "cnn_loaded"
    /\ IF ~file.ok
       THEN phase' = "dead" /\ UNCHANGED <<dataset, knn_model>>
       ELSE /\ dataset' = Some(file.rows)
            /\ IF Len(file.rows) = 0
               THEN phase' = "dead" /\ knn_model' = knn_model
               ELSE phase' = "loaded" /\ knn_model' = Some(create_knn_model(file.rows, tie))
    /\ UNCHANGED <<cnn_model, fs, req, resp, lastResp, recLog>>

\* app.run(...): the server starts accepting requests
AppRun ==
    /\ phase = "loaded"
    /\ phase' = "serving"
    /\ UNCHANGED <<cnn_model, knn_model, dataset, fs, req, resp, lastResp, recLog>>

----------------------------------------------------------------------------
(* /predict: one request is a sequence of steps; the steps of concurrent requests
   of the threaded server interleave at the accesses to temp/ *)

Reqs == 1..MaxReqs

FileNames == {"a.jpg"}

NoUpload == [present |-> FALSE, filename |-> "", content |-> NoFile]

\* what request.files can hold: no 'file' part, a part without a file name, or a file
Uploads == {NoUpload}
           \cup {[present |-> TRUE, filename |-> "", content |-> "imgA"]}
           \cup {[present |-> TRUE, filename |-> n, content |-> c] :
                     n \in FileNames, c \in Images}

IdleReq == [pc |-> "idle", file_path |-> None, upload |-> NoUpload, img |-> None,
            food_name |-> Nothing, nutrition |-> Nothing, confidence |-> 0]

\* the handler returns: its locals go, the response is sent
Finish(r, response) ==
    /\ req' = [req EXCEPT ![r] = IdleReq]
    /\ resp' = response

\* predict up to file.save: the two 400 answers, or the upload written to temp/<filename>
PredictBegin(r, file) ==
    /\ phase = "serving"
    /\ req[r].pc = "idle"
    /\ IF ~file.present
       THEN /\ Finish(r, Response("predict", Missing, 400, "No file uploaded", Nothing, FALSE))
            /\ fs' = fs
       ELSE IF file.filename = ""
       THEN /\ Finish(r, Response("predict", Missing, 400, "No file selected", Nothing, FALSE))
            /\ fs' = fs
       ELSE /\ fs' = [fs EXCEPT ![file.filename] = file.content]
            /\ req' = [req EXCEPT ![r] = [IdleReq EXCEPT !.pc = "saved", !.upload = file,
                                                          !.file_path = file.filename]]
            /\ resp' = resp
    /\ UNCHANGED <<phase, cnn_model, knn_model, dataset, lastResp, recLog>>

\* a lookup that wraps the class index into the dataset
predict_food_wrapping(ds, model, content) ==
    LET out  == CnnOutput(model, content)
        food == At(ds, out.cls % Len(ds))
    IN  [ok |-> TRUE, error |-> None, img |-> content, cls |-> out.cls,
         food_name |-> Some(food.nama),
         nutrition |-> Some([kalori |-> food.kalori, karbohidrat |-> food.karbohidrat,
                             protein |-> food.protein, lemak |-> food.lemak]),
         confidence |-> out.confidence]

\* predict_food(image_path) on a file holding content: Image.open, the classifier,
\* dataset[predicted_class]; every exception is re-raised
predict_food(ds, model, content) ==
    LET out == CnnOutput(model, content)
        failed(e, img, cls) ==
            [ok |-> FALSE, error |-> e, img |-> img, cls |-> cls, food_name |-> Nothing,
             nutrition |-> Nothing, confidence |-> 0]
    IN  IF content = NoFile THEN failed("FileNotFoundError", None, -1)
        ELSE IF content = "junk" THEN failed("UnidentifiedImageError", None, -1)
        ELSE IF ~InRange(ds, out.cls) THEN failed("IndexError", content, out.cls)
        ELSE LET food == At(ds, out.cls)
             IN  [ok |-> TRUE, error |-> None, img |-> content, cls |-> out.cls,
                  food_name |-> Some(food.nama),
                  nutrition |-> Some([kalori |-> food.kalori,
                                      karbohidrat |-> food.karbohidrat,
                                      protein |-> food.protein, lemak |-> food.lemak]),
                  confidence |-> out.confidence]

\* predict: the call predict_food(file_path); an exception goes to the handler's
\* except clause, which answers 500 (os.remove is skipped)
PredictFood(r) ==
    /\ phase = "serving"
    /\ req[r].pc = "saved"
    /\ LET p == predict_food(Val(dataset), Val(cnn_model), fs[req[r].file_path])
       IN  IF p.ok
           THEN /\ req' = [req EXCEPT ![r].pc = "predicted", ![r].img = p.img,
                                      ![r].food_name = p.food_name,
                                      ![r].nutrition = p.nutrition,
                                      ![r].confidence = p.confidence]
                /\ resp' = resp
           ELSE Finish(r, Response("predict", Missing, 500, p.error, Nothing, FALSE))
    /\ UNCHANGED <<phase, cnn_model, knn_model, dataset, fs, lastResp, recLog>>

\* predict from os.remove(file_path) to the response
PredictFinish(r) ==
    /\ phase = "serving"
    /\ req[r].pc = "predicted"
    /\ IF fs[req[r].file_path] = NoFile
       THEN /\ Finish(r, Response("predict", Missing, 500, "FileNotFoundError", Nothing,
                                  FALSE))
            /\ fs' = fs
       ELSE LET nutrition == Val(req[r].nutrition)
                food_features == <<nutrition.karbohidrat, nutrition.protein,
                                   nutrition.lemak>>
                rec == get_food_recommendations(Val(dataset), Val(knn_model),
                                                food_features)
            IN  /\ fs' = [fs EXCEPT ![req[r].file_path] = NoFile]
                /\ Finish(r, IF rec.ok
                             THEN Response("predict", Missing, 200, None,
                                           Some([food_name |-> Val(req[r].food_name),
                                                 confidence |-> req[r].confidence,
                                                 nutrition |-> nutrition,
                                                 recommendations |-> rec.recs]), TRUE)
                             ELSE Response("predict", Missing, 500, rec.error, Nothing, TRUE))
    /\ UNCHANGED <<phase, cnn_model, knn_model, dataset, lastResp, recLog>>

----------------------------------------------------------------------------
(* Specifications *)

\* the module is imported and the globals are None; temp/ holds no upload
Init ==
    /\ phase = "boot"
    /\ cnn_model = Nothing
    /\ knn_model = Nothing
    /\ dataset = Nothing
    /\ fs = [n \in FileNames |-> NoFile]
    /\ req = [r \in Reqs |-> IdleReq]
    /\ resp = NoResp
    /\ lastResp = NoResp
    /\ recLog = [q \in LogQueries |-> NotLogged]

\* requests the server specification sends to the handlers that use no temp file
ServerQueries == {Body(q) : q \in LogQueries}
ServerNames == {Body(<<"s", "a", "t", "e">>)}
ServerCalcs == {Body(c) : c \in CalcPool}

\* the server: startup, then any interleaving of requests
Next ==
    \/ \E f \in ModelFiles : LoadCnnModel(f)
    \/ \E file \in DatasetFiles, tie \in TieOrders : LoadDataset(file, tie)
    \/ AppRun
    \/ \E r \in Reqs, file \in Uploads : PredictBegin(r, file)
    \/ \E r \in Reqs : PredictFood(r)
    \/ \E r \in Reqs : PredictFinish(r)
    \/ \E data \in ServerQueries : RecommendReq(data)
    \/ \E data \in ServerNames : RecommendByNameReq(data)
    \/ \E data \in ServerCalcs : CalculateReq(data)

Spec == Init /\ [][Next]_vars

\* startup over every catalog of the pool, then the two recommendation requests
NextRec ==
    \/ \E f \in ModelFiles : LoadCnnModel(f)
    \/ \E file \in AllDatasetFiles, tie \in TieOrders : LoadDataset(file, tie)
    \/ AppRun
    \/ \E data \in {Missing} \cup {Body(q) : q \in QueryPool} : RecommendReq(data)
    \/ \E data \in {Missing} \cup {Body(n) : n \in NamePool} : RecommendByNameReq(data)

RecSpec == Init /\ [][NextRec]_vars

----------------------------------------------------------------------------
(* Vocabulary of the properties *)

\* the server is up with its globals loaded
Loaded == cnn_model # Nothing /\ knn_model # Nothing /\ dataset # Nothing

\* some handler has run or is running
Handled ==
    \/ \E r \in Reqs : req[r].pc # "idle"
    \/ resp # NoResp
    \/ lastResp # NoResp
    \/ \E q \in LogQueries : recLog[q] # NotLogged

\* the last /recommend or /recommend-by-name request returned a recommendation list
Answered ==
    /\ lastResp.route \in {"recommend", "recommend-by-name"}
    /\ lastResp.status = 200

\* the feature vector that request asked about
AnsweredQuery ==
    IF lastResp.route = "recommend"
    THEN Val(lastResp.input.v)
    ELSE LET n == Val(lastResp.body).input_food.nutrition
         IN  <<n.karbohidrat, n.protein, n.lemak>>

\* the list it returned
AnsweredRecs ==
    IF lastResp.route = "recommend" THEN Val(lastResp.body)
    ELSE Val(lastResp.body).recommendations

\* the feature vector of a returned item
ItemFeatures(item) ==
    <<item.nutrition.karbohidrat, item.nutrition.protein, item.nutrition.lemak>>

\* squared Euclidean distance
SqDist(a, b) ==
    (a[1] - b[1]) * (a[1] - b[1]) + (a[2] - b[2]) * (a[2] - b[2])
    + (a[3] - b[3]) * (a[3] - b[3])

\* score s is exactly 1 / (1 + d) for the d >= 0 with d * d = sq
IsScoreOfSqDist(s, sq) == \E d \in 0..sq : d * d = sq /\ s.den = s.num * (1 + d)

\* score a >= score b
ScoreGeq(a, b) == a.num * b.den >= b.num * a.den

\* what a response shows of a dataset record
Shown(food) ==
    [nama |-> food.nama,
     nutrition |-> [kalori |-> food.kalori, karbohidrat |-> food.karbohidrat,
                    protein |-> food.protein, lemak |-> food.lemak]]

ShownOf(item) == [nama |-> item.nama, nutrition |-> item.nutrition]

Min(a, b) == IF a <= b THEN a ELSE b

\* two names equal up to the case of their letters
SameUpToCase(a, b) ==
    /\ Len(a) = Len(b)
    /\ \A i \in DOMAIN a :
          \/ a[i] = b[i]
          \/ \E c \in DOMAIN UpperChars :
                {a[i], b[i]} = {UpperChars[c], LowerChars[c]}

\* the step in which request r's predict_food call returns or raises
PredictFoodStep(r) == req[r].pc = "saved" /\ req'[r].pc # "saved"

\* that call reads a decodable image whose class index is outside the dataset
OutOfRange(r) ==
    /\ phase = "serving"
    /\ fs[req[r].file_path] \in Images \ {"junk"}
    /\ ~InRange(Val(dataset), CnnOutput(Val(cnn_model), fs[req[r].file_path]).cls)

----------------------------------------------------------------------------
(* Properties *)

\* C1: whenever a /predict request that staged its upload to temp/<filename> returns,
\* with success or with the failure of any later stage, the staged file no longer exists.
C1_StagedFileRemoved ==
    [][\A r \in Reqs :
          (req[r].pc \in {"saved", "predicted"} /\ req'[r].pc = "idle")
              => fs'[req[r].file_path] = NoFile]_vars

\* C2 as claimed: a class index outside [0, N) makes the request fail with
\* CatalogMismatchError, without a lookup of another record and without recommendations.
C2_CatalogMismatchError ==
    [][\A r \in Reqs :
          (PredictFoodStep(r) /\ OutOfRange(r))
              => /\ req'[r].pc = "idle"
                 /\ resp' = Response("predict", Missing, 500, "CatalogMismatchError",
                                     Nothing, FALSE)]_vars

\* C2 amended: a class index outside [0, N) makes the request fail with IndexError,
\* answered 500; no record is looked up in its place (the request never reaches
\* "predicted") and get_food_recommendations is not called.
C2_IndexError ==
    [][\A r \in Reqs :
          (PredictFoodStep(r) /\ OutOfRange(r))
              => /\ req'[r].pc = "idle"
                 /\ resp' = Response("predict", Missing, 500, "IndexError",
                                     Nothing, FALSE)]_vars

\* a /predict request was answered with IndexError
C2_Witness == resp.status = 500 /\ resp.error = "IndexError" /\ ~resp.recRan

\* C3: a handler runs only once the server is started, the server is started only
\* with cnn_model, knn_model and dataset all loaded, and after a failed load (a global
\* still None, the process dead) no request is ever handled.
C3_InitBeforeServing ==
    /\ Handled => phase = "serving"
    /\ phase \in {"loaded", "serving"} => Loaded
    /\ phase = "dead" => ~Loaded /\ ~Handled

\* requests were answered by a fully loaded server
C3_Witness == phase = "serving" /\ Loaded /\ resp.status = 200 /\ lastResp.status = 200

\* C4: every /predict request classifies the image it uploaded itself.
C4_ClassifiesOwnUpload ==
    \A r \in Reqs : req[r].pc = "predicted" => req[r].img = req[r].upload.content

\* C5: every /recommend call with a feature vector returns exactly min(k, N) results,
\* by non-increasing similarity score, i.e. non-decreasing distance to the query.
C5_MinKNSorted ==
    (lastResp.route = "recommend" /\ lastResp.input.has)
        => /\ lastResp.status = 200
           /\ Len(Val(lastResp.body)) = Min(K, Len(Val(dataset)))
           /\ \A i, j \in DOMAIN Val(lastResp.body) :
                 i < j => /\ ScoreGeq(Val(lastResp.body)[i].similarity_score,
                                      Val(lastResp.body)[j].similarity_score)
                          /\ SqDist(AnsweredQuery, ItemFeatures(Val(lastResp.body)[i]))
                                 <= SqDist(AnsweredQuery, ItemFeatures(Val(lastResp.body)[j]))

\* C6: an index is never built, and the server never started, over fewer than k records.
C6_BuildNeedsKRecords ==
    (knn_model # Nothing \/ phase \in {"loaded", "serving"}) => Len(Val(dataset)) >= K

\* C7: in every returned list, the similarity_score at position i is 1 / (1 + d), d
\* being the Euclidean distance between the query and the record returned at position i.
C7_ScoreOfOwnDistance ==
    Answered =>
        \A i \in DOMAIN AnsweredRecs :
            IsScoreOfSqDist(AnsweredRecs[i].similarity_score,
                            SqDist(AnsweredQuery, ItemFeatures(AnsweredRecs[i])))

\* a returned list whose neighbours lie at different distances from the query
C7_Witness ==
    /\ Answered
    /\ \E i, j \in DOMAIN AnsweredRecs :
          /\ i < j
          /\ SqDist(AnsweredQuery, ItemFeatures(AnsweredRecs[i]))
                 < SqDist(AnsweredQuery, ItemFeatures(AnsweredRecs[j]))
          /\ AnsweredRecs[i].similarity_score # AnsweredRecs[j].similarity_score

\* C8 as claimed: when the query equals the feature vector of record j, the first
\* result is record j with score 1.0, for every such j.
C8_FirstIsRecordJ ==
    Answered =>
        \A j \in DOMAIN Val(dataset) :
            Features(Val(dataset)[j]) = AnsweredQuery
                => /\ ShownOf(AnsweredRecs[1]) = Shown(Val(dataset)[j])
                   /\ AnsweredRecs[1].similarity_score = [num |-> 1, den |-> 1]

\* C8 amended: when the query equals the feature vector of record j and a list is
\* returned, the first result has score 1.0 and the feature vector of the query, and
\* it is record j unless another record shares that feature vector; over fewer than
\* k records no list is returned, the call raises ValueError.
C8_FirstIsExactMatch ==
    /\ Answered =>
          \A j \in DOMAIN Val(dataset) :
              Features(Val(dataset)[j]) = AnsweredQuery
                  => /\ AnsweredRecs[1].similarity_score = [num |-> 1, den |-> 1]
                     /\ ItemFeatures(AnsweredRecs[1]) = AnsweredQuery
                     /\ (\A i \in DOMAIN Val(dataset) :
                            Features(Val(dataset)[i]) = AnsweredQuery
                                => Val(dataset)[i] = Val(dataset)[j])
                            => ShownOf(AnsweredRecs[1]) = Shown(Val(dataset)[j])
    /\ (lastResp.route = "recommend" /\ lastResp.input.has /\ Len(Val(dataset)) < K)
          => lastResp.status = 500 /\ lastResp.error = "ValueError"

\* a list returned for a query that equals the feature vector of two different records
C8_Witness ==
    /\ Answered
    /\ \E i, j \in DOMAIN Val(dataset) :
          /\ Features(Val(dataset)[i]) = AnsweredQuery
          /\ Features(Val(dataset)[j]) = AnsweredQuery
          /\ Val(dataset)[i] # Val(dataset)[j]

\* C9: a /recommend call with a feature vector that was asked before returns what the
\* first call returned, whatever requests were served since: the logged first result
\* is what get_food_recommendations returns in every later state.
C9_SameInputSameList ==
    phase = "serving" =>
        \A q \in LogQueries :
            recLog[q] # NotLogged
                => recLog[q] = get_food_recommendations(Val(dataset), Val(knn_model), q)

\* a list was logged, and /predict and /recommend-by-name requests were served since
C9_Witness ==
    /\ \E q \in LogQueries : recLog[q].ok
    /\ lastResp.route = "recommend-by-name"
    /\ resp.status = 500 /\ resp.error = "IndexError"

\* C10: /recommend-by-name matches names up to letter case: without a matching record
\* it answers 404 and get_food_recommendations is not called; otherwise it goes on
\* with the first record in catalog order whose name matches, which is the input_food
\* of its answer.
C10_FirstMatchUpToCase ==
    (lastResp.route = "recommend-by-name" /\ lastResp.input.has) =>
        LET hits == {i \in DOMAIN Val(dataset) :
                        SameUpToCase(Val(dataset)[i].nama, Val(lastResp.input.v))}
        IN  IF hits = {}
            THEN lastResp.status = 404 /\ ~lastResp.recRan /\ lastResp.body = Nothing
            ELSE /\ lastResp.recRan
                 /\ lastResp.status \in {200, 500}
                 /\ lastResp.status = 200
                       => \A i \in hits :
                             (\A j \in hits : i <= j)
                                 => Val(lastResp.body).input_food = Shown(Val(dataset)[i])

\* a name matched two different records, in another case than the one returned
C10_Witness ==
    /\ lastResp.route = "recommend-by-name" /\ lastResp.status = 200
    /\ Val(lastResp.body).input_food.nama # Val(lastResp.input.v)
    /\ \E i, j \in DOMAIN Val(dataset) :
          /\ i < j
          /\ SameUpToCase(Val(dataset)[i].nama, Val(lastResp.input.v))
          /\ SameUpToCase(Val(dataset)[j].nama, Val(lastResp.input.v))
          /\ Val(dataset)[i] # Val(dataset)[j]

====
